---- MODULE Spec2Model ----
(***************************************************************************)
(* Bulk S3 uploader (src/main.py): a FastAPI application with a process-   *)
(* wide status table, a counting semaphore bounding concurrent uploads,    *)
(* one background worker (process_upload) per named file of a request, a   *)
(* dispatcher (upload_files) and a status reporter (get_upload_status).    *)
(*                                                                         *)
(* Scheduling.  Everything runs on one asyncio event loop, so the code     *)
(* between two suspension points is one atomic step.  process_upload       *)
(* suspends at the semaphore (line 58, while no slot is free), at          *)
(* `await file.read()` (line 62) and at `await asyncio.to_thread(...)`     *)
(* (line 73); the two handlers contain no await and are atomic.            *)
(* background_tasks.add_task (line 119) appends to the request's           *)
(* BackgroundTasks list, which the framework runs after the response, one  *)
(* task after the other in the order added; an exception that escapes a    *)
(* task ends the run of that list.  Workers of different requests          *)
(* interleave freely.  A worker that has not entered the gate yet, either  *)
(* not started or suspended at line 58, has touched nothing: both are the  *)
(* position "queued", and which of the ready workers enters next is left   *)
(* open.                                                                   *)
(*                                                                         *)
(* Timestamps stored in the table are kept as the mark "t" (present);      *)
(* the clock is observed only where it decides behaviour, at line 108.     *)
(***************************************************************************)
EXTENDS Integers, Sequences, FiniteSets

\* ---------------------------------------------------------------- bounds
MaxDispatch == 2        \* requests to POST /upload/ in one run
MaxFiles == 2           \* files in one request
MaxTotalFiles == 2      \* files over all requests of one run
MaxGateDispatch == 4    \* single-file requests in one run of GateSpec
MaxOkDispatch == 2      \* requests in one run of OkSpec

\* ------------------------------------------------------------- constants
MAX_CONCURRENT_UPLOADS == 3

\* Clock ticks per second: the batch id keeps whole seconds only
\* (strftime('%Y%m%d_%H%M%S'), line 108), so requests arriving within the
\* same second obtain the same id.
TicksPerSecond == 2

\* ----------------------------------------------------------------- inputs
\* An UploadFile: its filename and whether its declared size is over 50 MiB.
\* process_upload never reads the declared size.
UploadFile(name, big) == [filename |-> name, oversize |-> big]

Files == { UploadFile("", FALSE), UploadFile("a", FALSE), UploadFile("b", TRUE) }

FileLists == UNION { [1..n -> Files] : n \in 0..MaxFiles }

VARIABLES
    now,            \* clock tick of the latest request
    upload_status,  \* line 40: batch id -> [total_files, start_time, files]
    sem,            \* line 39: free slots of upload_semaphore
    reqs,           \* requests received: [upload_id, files], in arrival order
    pc,             \* pc[d][i]: position of the worker for file i of request d
    put_calls,      \* put_calls[d][i]: keys worker <<d,i>> passed to the store
    tempfiles,      \* workers whose temporary file exists on disk
    resp            \* the HTTP response of the step just taken, if it sent one

vars == <<now, upload_status, sem, reqs, pc, put_calls, tempfiles, resp>>

\* ------------------------------------------------------------- dictionaries
EmptyDict == <<>>

\* d[k] = v
SetItem(d, k, v) == [x \in (DOMAIN d) \cup {k} |-> IF x = k THEN v ELSE d[x]]

\* d.update(u)
Update(d, u) ==
    [x \in (DOMAIN d) \cup (DOMAIN u) |-> IF x \in DOMAIN u THEN u[x] ELSE d[x]]

\* ------------------------------------------------------------------ clock
\* datetime.now().strftime('%Y%m%d_%H%M%S'): the second the tick falls in.
strftime(tick) == tick \div TicksPerSecond

\* ---------------------------------------------------------------- workers
\* <<d, i>>: file i of request d
Tasks == UNION { { <<d, i>> : i \in 1..Len(reqs[d].files) } : d \in 1..Len(reqs) }

\* The files a worker was scheduled for (lines 117-119)
Workers == { w \in Tasks : pc[w[1]][w[2]] # "skipped" }

Pc(w) == pc[w[1]][w[2]]
FileOf(w) == reqs[w[1]].files[w[2]]
BatchOf(w) == reqs[w[1]].upload_id

\* s3_key = f"{upload_id}/{file.filename}" (line 72)
S3Key(upload_id, filename) == <<upload_id, "/", filename>>

Terminal == { "completed", "failed" }

FilesOf(us, id) == us[id].files

\* A worker step answers no request.
NoResponse == [kind |-> "none"]

Init ==
    /\ now = 0
    /\ upload_status = EmptyDict
    /\ sem = MAX_CONCURRENT_UPLOADS
    /\ reqs = <<>>
    /\ pc = <<>>
    /\ put_calls = <<>>
    /\ tempfiles = {}
    /\ resp = NoResponse

\* ------------------------------------------------------------------- gate
\* Mutant: entering the gate does not count the slot.
AcquireUncounted(s) == s

\* async with upload_semaphore (line 58): entering takes one slot ...
Acquire(s) == s - 1

\* Mutant: leaving the gate keeps the slot.
ReleaseLeak(s) == s

\* ... and leaving the block, normally or by an exception, gives it back.
Release(s) == s + 1

\* ------------------------------------------------------- status table writes
\* Mutant: the batch's mapping is replaced by one holding only the new record.
MarkUploadingAlone(us, id, f) ==
    [us EXCEPT ![id].files =
        SetItem(EmptyDict, f, [status |-> "uploading", start_time |-> "t"])]

\* lines 66-69: a fresh record replaces whatever is stored under the name
MarkUploading(us, id, f) ==
    [us EXCEPT ![id].files =
        SetItem(@, f, [status |-> "uploading", start_time |-> "t"])]

\* Mutant: the completion is not written to the table.
MarkCompletedLost(us, id, f) == us

\* lines 81-84
MarkCompleted(us, id, f) ==
    [us EXCEPT ![id].files[f] =
        Update(@, [status |-> "completed", end_time |-> "t"])]

\* lines 89-93
MarkFailed(us, id, f, e) ==
    [us EXCEPT ![id].files[f] =
        Update(@, [status |-> "failed", error |-> e, end_time |-> "t"])]

\* upload_status[upload_id]['files'][file.filename] raises KeyError when the
\* name is not in the batch's mapping (lines 81 and 89).
HasRecord(us, id, f) == f \in DOMAIN FilesOf(us, id)

\* Mutant: the failure is logged but not written to the table.
ExceptBlockSilent(us, id, f, e) == us

\* The except block (lines 87-93) run for worker w: the record is marked
\* failed, or the lookup raises KeyError and the exception leaves
\* process_upload.
ExceptBlock(us, id, f, e) ==
    IF HasRecord(us, id, f) THEN MarkFailed(us, id, f, e) ELSE us

\* Mutant: the temporary file is left on disk.
FinallyBlockKeeps(tf, w) == tf

\* The finally block (lines 95-101): the temporary file is unlinked.
FinallyBlock(tf, w) == tf \ {w}

\* How process_upload ends when exception e is raised inside the try block.
PcAfterExcept(us, id, f) == IF HasRecord(us, id, f) THEN "failed" ELSE "crashed"

\* --------------------------------------------------------------- dispatcher
\* lines 116-119: one task per file with a non-empty filename
TasksFor(files) ==
    [i \in 1..Len(files) |-> IF files[i].filename = "" THEN "skipped" ELSE "queued"]

\* lines 110-114
NewBatch(files) == [total_files |-> Len(files), start_time |-> "t", files |-> EmptyDict]

\* POST /upload/ (lines 103-125), arriving dt ticks after the previous request
upload_files(dt, files) ==
    /\ now' = now + dt
    /\ LET upload_id == strftime(now') IN
        /\ upload_status' = SetItem(upload_status, upload_id, NewBatch(files))
        /\ reqs' = Append(reqs, [upload_id |-> upload_id, files |-> files])
        /\ resp' = [kind |-> "accepted", upload_id |-> upload_id,
                    message |-> Len(files)]
    /\ pc' = Append(pc, TasksFor(files))
    /\ put_calls' = Append(put_calls, [i \in 1..Len(files) |-> <<>>])
    /\ UNCHANGED <<sem, tempfiles>>

\* ------------------------------------------------------------------ worker
\* Positions of a worker:
\*   "skipped"   no task was added for the file (line 118)
\*   "queued"    task added, gate not entered yet
\*   "buffering" in the gate, at await file.read() (line 62)
\*   "putting"   in the gate, at await asyncio.to_thread(...) (line 73)
\*   "done"      returned after line 85
\*   "failed"    returned after the except block (line 93)
\*   "crashed"   an exception left process_upload
Returned == { "done", "failed" }
Finished == { "done", "failed", "crashed" }

\* The framework runs a task of a request's list when every task before it
\* has returned normally.
Runnable(w) ==
    /\ pc[w[1]][w[2]] = "queued"
    /\ \A j \in 1..(w[2] - 1) : pc[w[1]][j] \in Returned \cup {"skipped"}

\* lines 55-60: with a free slot the worker takes it and creates the
\* temporary file; it then waits for file.read().
Begin(w) ==
    /\ Runnable(w)
    /\ sem > 0
    /\ sem' = Acquire(sem)
    /\ tempfiles' = tempfiles \cup {w}
    /\ pc' = [pc EXCEPT ![w[1]][w[2]] = "buffering"]
    /\ resp' = NoResponse
    /\ UNCHANGED <<now, upload_status, reqs, put_calls>>

\* Mutant: the store call is made without recording the upload first.
ReadOkUnrecorded(w) ==
    /\ pc[w[1]][w[2]] = "buffering"
    /\ put_calls' = [put_calls EXCEPT ![w[1]][w[2]] =
                        Append(@, S3Key(BatchOf(w), FileOf(w).filename))]
    /\ pc' = [pc EXCEPT ![w[1]][w[2]] = "putting"]
    /\ resp' = NoResponse
    /\ UNCHANGED <<now, upload_status, sem, reqs, tempfiles>>

\* lines 62-78: the content is read and written to the temporary file, the
\* record is set to uploading and the store call is handed to a thread.
ReadOk(w) ==
    /\ pc[w[1]][w[2]] = "buffering"
    /\ upload_status' = MarkUploading(upload_status, BatchOf(w), FileOf(w).filename)
    /\ put_calls' = [put_calls EXCEPT ![w[1]][w[2]] =
                        Append(@, S3Key(BatchOf(w), FileOf(w).filename))]
    /\ pc' = [pc EXCEPT ![w[1]][w[2]] = "putting"]
    /\ resp' = NoResponse
    /\ UNCHANGED <<now, sem, reqs, tempfiles>>

\* An exception e reaches the except block while w holds a slot: the slot
\* is released on the way out of the async with block, then lines 87-101.
Raise(w, e) ==
    /\ sem' = Release(sem)
    /\ upload_status' = ExceptBlock(upload_status, BatchOf(w), FileOf(w).filename, e)
    /\ pc' = [pc EXCEPT ![w[1]][w[2]] =
                PcAfterExcept(upload_status, BatchOf(w), FileOf(w).filename)]
    /\ tempfiles' = FinallyBlock(tempfiles, w)
    /\ resp' = NoResponse
    /\ UNCHANGED <<now, reqs, put_calls>>

\* line 62: reading the uploaded file raises
ReadFails(w) ==
    /\ pc[w[1]][w[2]] = "buffering"
    /\ Raise(w, "IOError")

\* lines 73-85 and 95-101: the store call returned True
PutOk(w) ==
    /\ pc[w[1]][w[2]] = "putting"
    /\ IF HasRecord(upload_status, BatchOf(w), FileOf(w).filename)
       THEN /\ upload_status' =
                  MarkCompleted(upload_status, BatchOf(w), FileOf(w).filename)
            /\ sem' = Release(sem)
            /\ pc' = [pc EXCEPT ![w[1]][w[2]] = "done"]
            /\ tempfiles' = FinallyBlock(tempfiles, w)
            /\ resp' = NoResponse
            /\ UNCHANGED <<now, reqs, put_calls>>
       ELSE Raise(w, "KeyError")

\* Mutant: a failed store call is attempted again.
PutFailsRetry(w) ==
    /\ pc[w[1]][w[2]] = "putting"
    /\ put_calls' = [put_calls EXCEPT ![w[1]][w[2]] =
                        Append(@, S3Key(BatchOf(w), FileOf(w).filename))]
    /\ resp' = NoResponse
    /\ UNCHANGED <<now, upload_status, sem, reqs, pc, tempfiles>>

\* lines 51-53 and 87-101: the store call raised
PutFails(w) ==
    /\ pc[w[1]][w[2]] = "putting"
    /\ Raise(w, "ClientError")

\* ---------------------------------------------------------- status reporter
CountStatus(files, s) == Cardinality({ f \in DOMAIN files : files[f].status = s })

\* Mutant: in_progress forgets the failed files.
get_upload_status_NoFailed(us, upload_id) ==
    IF upload_id \notin DOMAIN us
    THEN [kind |-> "error", status_code |-> 404, detail |-> "Upload ID not found"]
    ELSE LET status == us[upload_id]
             completed == CountStatus(status.files, "completed")
             failed == CountStatus(status.files, "failed")
         IN [kind |-> "status",
             upload_id |-> upload_id,
             total_files |-> status.total_files,
             completed |-> completed,
             failed |-> failed,
             in_progress |-> status.total_files - completed,
             files |-> status.files]

\* GET /status/{upload_id} (lines 127-143)
get_upload_status(us, upload_id) ==
    IF upload_id \notin DOMAIN us
    THEN [kind |-> "error", status_code |-> 404, detail |-> "Upload ID not found"]
    ELSE LET status == us[upload_id]
             completed == CountStatus(status.files, "completed")
             failed == CountStatus(status.files, "failed")
         IN [kind |-> "status",
             upload_id |-> upload_id,
             total_files |-> status.total_files,
             completed |-> completed,
             failed |-> failed,
             in_progress |-> status.total_files - (completed + failed),
             files |-> status.files]

PollIds == 0..(strftime(Len(reqs)) + 1)

\* Mutant: an unknown id is entered into the table, as a defaultdict would.
PollCreating(upload_id) ==
    /\ upload_status' =
            IF upload_id \in DOMAIN upload_status THEN upload_status
            ELSE SetItem(upload_status, upload_id, NewBatch(<<>>))
    /\ resp' = get_upload_status(upload_status', upload_id)
    /\ UNCHANGED <<now, sem, reqs, pc, put_calls, tempfiles>>

Poll(upload_id) ==
    /\ resp' = get_upload_status(upload_status, upload_id)
    /\ UNCHANGED <<now, upload_status, sem, reqs, pc, put_calls, tempfiles>>

\* ------------------------------------------------------------ specification
\* A request arrives at most one tick after the previous one.
Gaps == 0..1

Dispatch ==
    /\ Len(reqs) < MaxDispatch
    /\ \E dt \in Gaps, files \in FileLists :
        /\ Cardinality(Tasks) + Len(files) <= MaxTotalFiles
        /\ upload_files(dt, files)

Next ==
    \/ Dispatch
    \/ \E w \in Workers : Begin(w)
    \/ \E w \in Workers : ReadOk(w)
    \/ \E w \in Workers : ReadFails(w)
    \/ \E w \in Workers : PutOk(w)
    \/ \E w \in Workers : PutFails(w)
    \/ \E id \in PollIds : Poll(id)

Spec == Init /\ [][Next]_vars

\* The gate under load: requests of one named file each, enough of them to
\* keep more than MAX_CONCURRENT_UPLOADS workers alive at once.
GateLists == { <<UploadFile("a", FALSE)>> }

\* A request arrives in the same second as the previous one or a second
\* later, so that the batches can be as many as the requests.
GateGaps == { 0, TicksPerSecond }

GateDispatch ==
    /\ Len(reqs) < MaxGateDispatch
    /\ \E dt \in GateGaps, files \in GateLists : upload_files(dt, files)

GateNext ==
    \/ GateDispatch
    \/ \E w \in Workers : Begin(w)
    \/ \E w \in Workers : ReadOk(w)
    \/ \E w \in Workers : ReadFails(w)
    \/ \E w \in Workers : PutOk(w)
    \/ \E w \in Workers : PutFails(w)

GateSpec == Init /\ [][GateNext]_vars

\* The end-to-end scenario: requests at least a second apart (no two share
\* an id), files with distinct non-empty names, reads and store calls that
\* succeed.  The event loop runs every task that is ready and every store
\* call returns, so a worker step that stays possible is eventually taken.
OkLists == { <<UploadFile("a", FALSE)>>,
             <<UploadFile("a", FALSE), UploadFile("b", FALSE)>> }

OkGaps == TicksPerSecond..(TicksPerSecond + 1)

OkDispatch ==
    /\ Len(reqs) < MaxOkDispatch
    /\ \E dt \in OkGaps, files \in OkLists : upload_files(dt, files)

OkWorkerStep ==
    \/ \E w \in Workers : Begin(w)
    \/ \E w \in Workers : ReadOk(w)
    \/ \E w \in Workers : PutOk(w)

OkNext ==
    \/ OkDispatch
    \/ OkWorkerStep
    \/ \E id \in PollIds : Poll(id)

OkSpec == Init /\ [][OkNext]_vars /\ WF_vars(OkWorkerStep)

\* =================================================================== claims
\* Workers between buffering-start and their terminal status: the positions
\* inside the async with block (lines 58-85).
InTransit == { w \in Workers : Pc(w) \in {"buffering", "putting"} }

\* A worker that could enter the gate but for the lack of a free slot.
WaitingAtGate(w) == Runnable(w) /\ sem = 0

\* No worker can take a step.
AtRest == \A w \in Workers : Pc(w) \in Finished \/ (Pc(w) = "queued" /\ ~Runnable(w))

\* What a poll of batch id would report now.
Report(id) == get_upload_status(upload_status, id)

\* C1: at every instant at most MAX_CONCURRENT_UPLOADS = 3 workers are in
\* transit, over all batches and whatever the outcomes of the transfers.
C1_AtMostKInTransit == Cardinality(InTransit) <= MAX_CONCURRENT_UPLOADS

\* C1 witness: the gate is full and a further worker is held back.
C1_Witness ==
    /\ Cardinality(InTransit) = MAX_CONCURRENT_UPLOADS
    /\ \E w \in Workers : WaitingAtGate(w)

\* C2: for every batch of the table, and for every status response sent,
\* completed + failed + in_progress = total_files, completed and failed
\* being the numbers of records with those statuses in the batch's mapping.
C2_CountsAddUp ==
    /\ \A id \in DOMAIN upload_status :
        LET r == Report(id) IN
        /\ r.completed + r.failed + r.in_progress = r.total_files
        /\ r.total_files = upload_status[id].total_files
        /\ r.completed = CountStatus(FilesOf(upload_status, id), "completed")
        /\ r.failed = CountStatus(FilesOf(upload_status, id), "failed")
    /\ resp.kind = "status" =>
        /\ resp.completed + resp.failed + resp.in_progress = resp.total_files
        /\ resp.completed = CountStatus(resp.files, "completed")
        /\ resp.failed = CountStatus(resp.files, "failed")

\* C2 witness: a poll answered with one completed and one failed file.
C2_Witness == resp.kind = "status" /\ resp.completed = 1 /\ resp.failed = 1

\* C3: a failure of one file's worker never keeps a sibling of the same
\* batch from running: no worker is left unstarted behind a sibling that
\* failed with an exception.
C3_SiblingsStillRun ==
    \A w \in Workers :
        Pc(w) = "queued" => \A j \in 1..(w[2] - 1) : pc[w[1]][j] # "crashed"

\* C4: no exception ever escapes process_upload: every exception raised
\* while buffering or transferring ends in the except block's failed record.
C4_NoExceptionEscapes == \A w \in Workers : Pc(w) # "crashed"

\* C5: a file whose declared size exceeds the limit is never passed to the
\* object store and its worker never ends with a completed upload.
C5_OversizeNeverPut ==
    \A w \in Workers :
        FileOf(w).oversize => put_calls[w[1]][w[2]] = <<>> /\ Pc(w) # "done"

\* C6: the slots held always equal the number of workers inside the gated
\* section, stay within 0..MAX_CONCURRENT_UPLOADS, and none is held when no
\* worker is inside, whichever way the workers left it.
HeldSlots == MAX_CONCURRENT_UPLOADS - sem

C6_GateExceptionSafe ==
    /\ HeldSlots = Cardinality(InTransit)
    /\ HeldSlots \in 0..MAX_CONCURRENT_UPLOADS
    /\ (InTransit = {} => HeldSlots = 0)

\* C6 witness: workers have left the gate in each of the three ways
\* (success, recorded failure, escaping exception) and every slot is free.
C6_Witness ==
    /\ InTransit = {}
    /\ sem = MAX_CONCURRENT_UPLOADS
    /\ \E w \in Workers : Pc(w) = "done"
    /\ \E w \in Workers : Pc(w) = "failed"
    /\ \E w \in Workers : Pc(w) = "crashed"

\* C7: once a record shows completed or failed, no step changes its status
\* or removes it.
C7_TerminalIsFinal ==
    [][\A id \in DOMAIN upload_status :
        \A f \in DOMAIN FilesOf(upload_status, id) :
            FilesOf(upload_status, id)[f].status \in Terminal =>
                /\ HasRecord(upload_status', id, f)
                /\ FilesOf(upload_status', id)[f].status =
                        FilesOf(upload_status, id)[f].status]_vars

\* The request that created the table's current entry for id.
LastReq(id) ==
    CHOOSE d \in 1..Len(reqs) :
        /\ reqs[d].upload_id = id
        /\ \A e \in (d + 1)..Len(reqs) : reqs[e].upload_id # id

EmptyNamed(d) == Cardinality({ i \in 1..Len(reqs[d].files) : reqs[d].files[i].filename = "" })

\* C8: a file with an empty filename gets no worker, no store call and no
\* record, and in_progress of a batch with e >= 1 empty-named files never
\* drops below e.
C8_EmptyNameResidue ==
    /\ \A t \in Tasks :
        FileOf(t).filename = "" => Pc(t) = "skipped" /\ put_calls[t[1]][t[2]] = <<>>
    /\ \A id \in DOMAIN upload_status :
        /\ "" \notin DOMAIN FilesOf(upload_status, id)
        /\ EmptyNamed(LastReq(id)) >= 1 =>
                Report(id).in_progress >= EmptyNamed(LastReq(id))

\* C9: in the end-to-end scenario the dispatcher answers with the batch id
\* while every worker of the batch is still queued; as long as no worker of
\* the batch has finished a poll reports completed = 0, failed = 0,
\* in_progress = n; and eventually every poll reports completed = n,
\* failed = 0, in_progress = 0 for ever.
Counts(id, c, f, p) ==
    /\ Report(id).kind = "status"
    /\ Report(id).completed = c
    /\ Report(id).failed = f
    /\ Report(id).in_progress = p

C9_ReturnsAtOnce ==
    Len(reqs') = Len(reqs) + 1 =>
        /\ resp'.kind = "accepted"
        /\ resp'.upload_id = reqs'[Len(reqs')].upload_id
        /\ \A i \in 1..Len(reqs'[Len(reqs')].files) : pc'[Len(reqs')][i] = "queued"

C9_BeforeAnyFinish ==
    \A d \in 1..Len(reqs) :
        (\A i \in 1..Len(reqs[d].files) : pc[d][i] \notin Finished) =>
            Counts(reqs[d].upload_id, 0, 0, Len(reqs[d].files))

C9_AllCompleted(d) ==
    d <= Len(reqs) => Counts(reqs[d].upload_id, Len(reqs[d].files), 0, 0)

C9_EndToEnd ==
    /\ [][C9_ReturnsAtOnce]_vars
    /\ []C9_BeforeAnyFinish
    /\ \A d \in 1..MaxOkDispatch : <>[]C9_AllCompleted(d)

\* C9 witness: a batch of two files has been polled as wholly completed.
C9_Witness ==
    /\ resp.kind = "status"
    /\ resp.total_files = 2
    /\ resp.completed = 2
    /\ resp.in_progress = 0

\* C10: with more than MAX_CONCURRENT_UPLOADS workers dispatched, when no
\* worker can take a further step every file with a non-empty filename has
\* a record with status completed or failed.
C10_AllWorkersFinish ==
    (AtRest /\ Cardinality(Workers) > MAX_CONCURRENT_UPLOADS) =>
        \A w \in Workers :
            /\ HasRecord(upload_status, BatchOf(w), FileOf(w).filename)
            /\ FilesOf(upload_status, BatchOf(w))[FileOf(w).filename].status \in Terminal

\* The batch ids some request has produced.
Dispatched == { reqs[d].upload_id : d \in 1..Len(reqs) }

NotFound == [kind |-> "error", status_code |-> 404, detail |-> "Upload ID not found"]

\* C11: a poll of an id no request has produced is answered 404 "Upload ID
\* not found", whatever came before; a status answer always names a produced
\* id; and a poll leaves the table as it was.
C11_UnknownIdNotFound ==
    /\ \A id \in PollIds \ Dispatched : Report(id) = NotFound
    /\ resp.kind = "status" => resp.upload_id \in Dispatched
    /\ resp.kind = "error" => resp = NotFound

C11_PollReadsOnly ==
    resp'.kind \in {"status", "error"} => upload_status' = upload_status

C11_NotFound == []C11_UnknownIdNotFound /\ [][C11_PollReadsOnly]_vars

\* C11 witness: a 404 answer after requests were dispatched and a worker
\* has finished.
C11_Witness ==
    /\ resp = NotFound
    /\ Len(reqs) >= 1
    /\ \E w \in Workers : Pc(w) \in Finished

\* The terminal status worker w wrote before it returned.
WrittenBy(w) == IF Pc(w) = "done" THEN "completed" ELSE "failed"

\* Of two workers of one request, the one that wrote a terminal status last:
\* the later one, unless it wrote none.
LastWriter(w1, w2) == IF Pc(w2) \in Returned THEN w2 ELSE w1

\* C12: for two files of one request with the same non-empty name the
\* batch holds a single record under that name, and once both workers have
\* finished its status is the terminal status the last of them wrote.
C12_LastWriteWins ==
    \A w1 \in Workers, w2 \in Workers :
        (/\ w1[1] = w2[1]
         /\ w1[2] < w2[2]
         /\ FileOf(w1).filename = FileOf(w2).filename
         /\ Pc(w1) \in Finished
         /\ Pc(w2) \in Finished) =>
            /\ HasRecord(upload_status, BatchOf(w1), FileOf(w1).filename)
            /\ FilesOf(upload_status, BatchOf(w1))[FileOf(w1).filename].status =
                    WrittenBy(LastWriter(w1, w2))

\* The store calls worker w has made.
PutsOf(w) == put_calls[w[1]][w[2]]

\* C13: a worker calls the store at most once: not before its buffering has
\* succeeded, exactly once when it has, and never again afterwards, whether
\* the call succeeded or failed.
C13_PutCount ==
    \A w \in Workers :
        /\ Len(PutsOf(w)) <= 1
        /\ Pc(w) \in {"queued", "buffering"} => Len(PutsOf(w)) = 0
        /\ Pc(w) \in {"putting", "done"} => Len(PutsOf(w)) = 1

C13_PutOnlyAfterBuffering ==
    \A w \in Workers :
        /\ (Pc(w) = "buffering" /\ pc'[w[1]][w[2]] = "putting") =>
                Len(put_calls'[w[1]][w[2]]) = 1
        /\ put_calls'[w[1]][w[2]] # PutsOf(w) =>
                Pc(w) = "buffering" /\ pc'[w[1]][w[2]] = "putting"

C13_SingleAttempt == []C13_PutCount /\ [][C13_PutOnlyAfterBuffering]_vars

\* C13 witness: a worker whose one store call failed has returned.
C13_Witness ==
    \E w \in Workers : Pc(w) = "failed" /\ Len(PutsOf(w)) = 1

\* C14: the step in which a worker calls the store leaves it inside the
\* gate with its file buffered and its record set to uploading with a
\* start timestamp; a store call is in flight only while the worker holds a
\* slot; and its key is "{upload_id}/{filename}" of the worker's own batch
\* id and filename.
C14_PutInsideGate ==
    \A w \in Workers :
        /\ Pc(w) = "putting" =>
                w \in InTransit /\ w \in tempfiles /\ HeldSlots >= 1
        /\ \A k \in 1..Len(PutsOf(w)) :
                PutsOf(w)[k] = <<reqs[w[1]].upload_id, "/", reqs[w[1]].files[w[2]].filename>>

C14_PutAfterUploading ==
    \A w \in Workers :
        put_calls'[w[1]][w[2]] # PutsOf(w) =>
            /\ Pc(w) = "buffering"
            /\ pc'[w[1]][w[2]] = "putting"
            /\ sem' < MAX_CONCURRENT_UPLOADS
            /\ w \in tempfiles'
            /\ HasRecord(upload_status', BatchOf(w), FileOf(w).filename)
            /\ FilesOf(upload_status', BatchOf(w))[FileOf(w).filename] =
                    [status |-> "uploading", start_time |-> "t"]

C14_StepOrder == []C14_PutInsideGate /\ [][C14_PutAfterUploading]_vars

\* C14 witness: a store call for a file of batch 1 is in flight.
C14_Witness ==
    \E w \in Workers :
        /\ Pc(w) = "putting"
        /\ BatchOf(w) = 1
        /\ PutsOf(w) = << <<1, "/", FileOf(w).filename>> >>

\* C15: every record has an end timestamp exactly when its status is
\* completed or failed, and an error message exactly when it is failed.
C15_RecordsWellFormed ==
    \A id \in DOMAIN upload_status :
        \A f \in DOMAIN FilesOf(upload_status, id) :
            LET r == FilesOf(upload_status, id)[f] IN
            /\ "start_time" \in DOMAIN r
            /\ ("end_time" \in DOMAIN r) <=> (r.status \in Terminal)
            /\ ("error" \in DOMAIN r) <=> (r.status = "failed")

\* What of the table a worker for file f of batch b must leave alone: the
\* other batches, and in batch b everything but the record under f.
OthersUntouched(b, f) ==
    /\ DOMAIN upload_status' = DOMAIN upload_status
    /\ \A id \in DOMAIN upload_status :
        IF id # b
        THEN upload_status'[id] = upload_status[id]
        ELSE /\ upload_status'[id].total_files = upload_status[id].total_files
             /\ upload_status'[id].start_time = upload_status[id].start_time
             /\ DOMAIN FilesOf(upload_status', id) \ {f} =
                    DOMAIN FilesOf(upload_status, id) \ {f}
             /\ \A g \in DOMAIN FilesOf(upload_status, id) \ {f} :
                    FilesOf(upload_status', id)[g] = FilesOf(upload_status, id)[g]

\* C16: a step of the worker for file f of batch b changes nothing of the
\* table but the record under f in batch b.
C16_WorkerStep ==
    \A w \in Workers :
        pc'[w[1]][w[2]] # Pc(w) => OthersUntouched(BatchOf(w), FileOf(w).filename)

C16_WorkerFrame == [][C16_WorkerStep]_vars

\* C16 witness: a worker has written its terminal status while the table
\* holds another record too, in its batch or in another one.
C16_Witness ==
    \E w \in Workers :
        /\ Pc(w) \in Returned
        /\ \E id \in DOMAIN upload_status, g \in {"a", "b"} :
            /\ <<id, g>> # <<BatchOf(w), FileOf(w).filename>>
            /\ HasRecord(upload_status, id, g)

\* C17: a temporary file exists only for a worker that is inside the gate:
\* none remains for a finished worker, whichever way it left, and none at
\* all when no worker is running.
C17_TempFilesDiscarded ==
    /\ \A w \in Workers : Pc(w) \in Finished => w \notin tempfiles
    /\ tempfiles \subseteq InTransit
    /\ InTransit = {} => tempfiles = {}

\* C17 witness: one worker has left by an escaping exception and another by
\* a recorded failure, and no temporary file is left.
C17_Witness ==
    /\ tempfiles = {}
    /\ \E w \in Workers : Pc(w) = "crashed"
    /\ \E w \in Workers : Pc(w) = "failed" /\ Len(PutsOf(w)) = 1

\* C18: a worker that has recorded uploading and waits for the store finds
\* its record in the batch's mapping when the store call returns, whatever
\* requests arrived in between.
C18_RecordStillThere ==
    \A w \in Workers :
        Pc(w) = "putting" => HasRecord(upload_status, BatchOf(w), FileOf(w).filename)

\* C19: for every batch the reported in_progress lies in 0..total_files.
C19_InProgressInRange ==
    \A id \in DOMAIN upload_status :
        /\ Report(id).in_progress >= 0
        /\ Report(id).in_progress <= Report(id).total_files

\* The records of the whole table that show uploading.
UploadingRecords ==
    { k \in (DOMAIN upload_status) \X {"", "a", "b"} :
        /\ HasRecord(upload_status, k[1], k[2])
        /\ FilesOf(upload_status, k[1])[k[2]].status = "uploading" }

\* C20: at most MAX_CONCURRENT_UPLOADS records of the table show uploading,
\* and each of them belongs to a worker that is inside the gate waiting for
\* the store: no worker leaves the gate with its record at uploading.
C20_UploadingAtMostK ==
    /\ Cardinality(UploadingRecords) <= MAX_CONCURRENT_UPLOADS
    /\ \A k \in UploadingRecords :
        \E w \in Workers :
            /\ Pc(w) = "putting"
            /\ BatchOf(w) = k[1]
            /\ FileOf(w).filename = k[2]

\* C20 witness: three records show uploading, a fourth worker is held at
\* the gate.
C20_Witness ==
    /\ Cardinality(UploadingRecords) = MAX_CONCURRENT_UPLOADS
    /\ \E w \in Workers : WaitingAtGate(w)

====
